---- MODULE Spec2Model ----
(***************************************************************************)
(* Batch orchestration of the trading pipeline:                            *)
(* TradingStrategy.run_market_signal (app/core/strategy/trading_strategy). *)
(* One TradingStrategy object is constructed and run_market_signal is      *)
(* called on it once.  The pipeline (graph.propagate) and the graph        *)
(* factory are external collaborators: each of their calls is a            *)
(* nondeterministic choice among the outcomes the caller can observe.      *)
(*                                                                         *)
(* Observability collector: TimingCallbackHandler                          *)
(* (app/core/tradingagents/graph/timing_callback).  Its handlers are       *)
(* called by several threads; every `with self._lock` block is an acquire  *)
(* step followed by a step that runs the block and releases the lock.      *)
(*                                                                         *)
(* The specifications that share the module: Spec (the strategy);          *)
(* SpecCollector, SpecPairs and SpecLive (the collector under threads);    *)
(* SpecCalls (the collector under one caller, with the log of its events); *)
(* SpecTokens and SpecDecision (the usage-counter extraction and the       *)
(* decision normalisation as functions of their input).  Each keeps the    *)
(* variables of the other parts at their initial values.                   *)
(***************************************************************************)
EXTENDS Integers, Sequences, FiniteSets, TLC

VARIABLES settings, config, graph, graphs_built, signal, pc, i, results,
          raw, calls

VARIABLES response, tk_result, tk_pc

VARIABLES _lock, _llm_starts, _llm_serialized, _chain_starts, _tool_starts,
          _tool_serialized, llm_calls, chain_records, tool_calls,
          clock, th, ops_left, script, stale, n_starts

VARIABLES value, decision

VARIABLE log

(* the strategy's variables *)
svars == <<settings, config, graph, graphs_built, signal, pc, i, results,
           raw, calls>>

(* the variables of the usage-counter extraction *)
tvars == <<response, tk_result, tk_pc>>

(* the collector: its lock, in-flight maps and completed lists *)
shared == <<_llm_starts, _llm_serialized, _chain_starts, _tool_starts,
            _tool_serialized, llm_calls, chain_records, tool_calls>>

(* the collector with its callers: the clock, the threads, what they may
   still call, and the history the properties refer to *)
cvars == <<_lock, shared, clock, th, ops_left, script, stale, n_starts>>

(* the variables of the decision normalisation *)
dvars == <<value, decision>>

vars == <<svars, tvars, cvars, dvars, log>>

(***************************************************************************)
(* Bounds of the model.                                                    *)
(***************************************************************************)
MaxVendors == 3

Tickers == {"AAPL", "MSFT"}

None == "None"

(* provider: any string; only equality with "google" is ever tested *)
Providers == {"google", "openai"}

OptProviders == {None, "google"}

ThinkingLevels == {None, "high"}

(* An exception, by what the classifier reads of str(exc).lower(). *)
Exceptions == { [thought_signature |-> TRUE,  gemini |-> TRUE],
                [thought_signature |-> FALSE, gemini |-> TRUE],
                [thought_signature |-> FALSE, gemini |-> FALSE] }

SeqsUpTo(S, n) == UNION { [1..k -> S] : k \in 0..n }

Signals == SeqsUpTo(Tickers, MaxVendors)

(***************************************************************************)
(* Pure functions.                                                         *)
(***************************************************************************)
StrategySettings ==
    [provider : Providers, quick_provider : OptProviders,
     deep_provider : OptProviders, google_thinking_level : ThinkingLevels]

build_runtime_config(s) ==
    [llm_provider          |-> s.provider,
     quick_think_provider  |-> s.quick_provider,
     deep_think_provider   |-> s.deep_provider,
     google_thinking_level |-> s.google_thinking_level]

(* graph_factory(analysts, debug, config) when it returns: the n-th instance
   built for this strategy, bound to the configuration it was given. *)
graph_factory(n, cfg) == [id |-> n, config |-> cfg]

_is_google_thought_signature_error(exc) ==
    exc.thought_signature /\ exc.gemini

uses_google(s) ==
    \/ s.provider = "google"
    \/ s.quick_provider = "google"
    \/ s.deep_provider = "google"

(* fallback_config = self.config.copy(); fallback_config[...] = None *)
fallback_config(cfg) == [cfg EXCEPT !.google_thinking_level = None]

(* One line of the invocation log: which vendor, on which capability
   instance, under which thinking hint, and how propagate ended. *)
Call(k, g, out) ==
    [vendor |-> k, ticker |-> signal[k], graph |-> g.id,
     thinking |-> g.config.google_thinking_level, outcome |-> out]

VendorRunResult(k) == [ticker |-> signal[k], vendor |-> k]

(***************************************************************************)
(* Init: the state after TradingStrategy.__init__, with the signal the     *)
(* caller is about to pass.                                                *)
(***************************************************************************)
StrategyInit ==
    /\ settings \in StrategySettings
    /\ config = build_runtime_config(settings)
    /\ graph = graph_factory(1, config)
    /\ graphs_built = 1
    /\ signal \in Signals
    /\ pc = "idle"
    /\ i = 0
    /\ results = << >>
    /\ raw = None
    /\ calls = << >>

(* `continue` / falling off the loop body: the next vendor, or the code
   after the loop. *)
NextVendor ==
    IF i < Len(signal)
    THEN /\ i' = i + 1
         /\ pc' = "propagate"
    ELSE /\ i' = i
         /\ pc' = "after_loop"

(* Enter with the empty check missing: the for loop runs zero times and the
   code after the loop is reached. *)
Enter_NoEmptyCheck ==
    /\ pc = "idle"
    /\ IF signal = << >>
       THEN /\ pc' = "after_loop"
            /\ i' = i
       ELSE /\ pc' = "propagate"
            /\ i' = 1
    /\ results' = << >>
    /\ UNCHANGED <<settings, config, graph, graphs_built, signal, raw, calls>>

(* Entry of run_market_signal: the empty check and results = []. *)
Enter ==
    /\ pc = "idle"
    /\ IF signal = << >>
       THEN /\ pc' = "raised_empty"
            /\ i' = i
       ELSE /\ pc' = "propagate"
            /\ i' = 1
    /\ results' = << >>
    /\ UNCHANGED <<settings, config, graph, graphs_built, signal, raw, calls>>

(* First self.graph.propagate(ticker, date) of vendor i returns a pair. *)
PropagateReturns ==
    /\ pc = "propagate"
    /\ \E shape \in {"valid", "malformed"} :
         /\ raw' = shape
         /\ calls' = Append(calls, Call(i, graph, shape))
    /\ pc' = "validate"
    /\ UNCHANGED <<settings, config, graph, graphs_built, signal, i, results>>

(* PropagateRaises without the classifier: with a Google provider every
   error falls back and retries. *)
PropagateRaises_RetriesAll ==
    /\ pc = "propagate"
    /\ \E exc \in Exceptions :
         IF uses_google(settings)
         THEN /\ calls' = Append(calls,
                     Call(i, graph,
                          IF _is_google_thought_signature_error(exc)
                          THEN "marker" ELSE "error"))
              /\ pc' = "fallback"
              /\ i' = i
         ELSE /\ calls' = Append(calls,
                     Call(i, graph,
                          IF _is_google_thought_signature_error(exc)
                          THEN "marker" ELSE "error"))
              /\ NextVendor
    /\ UNCHANGED <<settings, config, graph, graphs_built, signal, results, raw>>

(* First propagate of vendor i raises; the except branch classifies it. *)
PropagateRaises ==
    /\ pc = "propagate"
    /\ \E exc \in Exceptions :
         IF uses_google(settings) /\ _is_google_thought_signature_error(exc)
         THEN /\ calls' = Append(calls, Call(i, graph, "marker"))
              /\ pc' = "fallback"
              /\ i' = i
         ELSE /\ calls' = Append(calls,
                     Call(i, graph,
                          IF _is_google_thought_signature_error(exc)
                          THEN "marker" ELSE "error"))
              /\ NextVendor
    /\ UNCHANGED <<settings, config, graph, graphs_built, signal, results, raw>>

(* BuildFallback that keeps the live capability instead of building one. *)
BuildFallback_KeepsGraph ==
    /\ pc = "fallback"
    /\ config' = fallback_config(config)
    /\ graph' = graph
    /\ graphs_built' = graphs_built
    /\ pc' = "retry"
    /\ UNCHANGED <<settings, signal, i, results, raw, calls>>

(* BuildFallback that clears the hint in self.config itself, the dict the
   live capability was built from, instead of in a copy. *)
BuildFallback_InPlace ==
    /\ pc = "fallback"
    /\ config' = fallback_config(config)
    /\ \E built \in BOOLEAN :
         IF built
         THEN /\ graph' = graph_factory(graphs_built + 1, config')
              /\ graphs_built' = graphs_built + 1
              /\ pc' = "retry"
         ELSE /\ graph' = [graph EXCEPT !.config = config']
              /\ graphs_built' = graphs_built
              /\ pc' = "raised_factory"
    /\ UNCHANGED <<settings, signal, i, results, raw, calls>>

(* The fallback: self.config is replaced by the copy, then the factory is
   called outside any try block; it returns a new instance or raises. *)
BuildFallback ==
    /\ pc = "fallback"
    /\ config' = fallback_config(config)
    /\ \E built \in BOOLEAN :
         IF built
         THEN /\ graph' = graph_factory(graphs_built + 1, config')
              /\ graphs_built' = graphs_built + 1
              /\ pc' = "retry"
         ELSE /\ graph' = graph
              /\ graphs_built' = graphs_built
              /\ pc' = "raised_factory"
    /\ UNCHANGED <<settings, signal, i, results, raw, calls>>

(* The retry of vendor i on the fallback capability returns a pair. *)
RetryReturns ==
    /\ pc = "retry"
    /\ \E shape \in {"valid", "malformed"} :
         /\ raw' = shape
         /\ calls' = Append(calls, Call(i, graph, shape))
    /\ pc' = "validate"
    /\ UNCHANGED <<settings, config, graph, graphs_built, signal, i, results>>

(* RetryRaises that classifies the retry's error like the first one, so a
   marker error falls back and retries again. *)
RetryRaises_Cascades ==
    /\ pc = "retry"
    /\ \E exc \in Exceptions :
         IF uses_google(settings) /\ _is_google_thought_signature_error(exc)
         THEN /\ calls' = Append(calls, Call(i, graph, "marker"))
              /\ pc' = "fallback"
              /\ i' = i
         ELSE /\ calls' = Append(calls, Call(i, graph, "error"))
              /\ NextVendor
    /\ UNCHANGED <<settings, config, graph, graphs_built, signal, results, raw>>

(* The retry raises: logged, vendor skipped. *)
RetryRaises ==
    /\ pc = "retry"
    /\ \E exc \in Exceptions :
         calls' = Append(calls,
                    Call(i, graph,
                         IF _is_google_thought_signature_error(exc)
                         THEN "marker" ELSE "error"))
    /\ NextVendor
    /\ UNCHANGED <<settings, config, graph, graphs_built, signal, results, raw>>

(* Validate without the try/except/continue: a malformed result is
   appended like a valid one. *)
Validate_KeepsMalformed ==
    /\ pc = "validate"
    /\ results' = Append(results, VendorRunResult(i))
    /\ raw' = None
    /\ NextVendor
    /\ UNCHANGED <<settings, config, graph, graphs_built, signal, calls>>

(* Validate that inserts the record at the front of results. *)
Validate_Prepends ==
    /\ pc = "validate"
    /\ results' = IF raw = "valid"
                  THEN <<VendorRunResult(i)>> \o results
                  ELSE results
    /\ raw' = None
    /\ NextVendor
    /\ UNCHANGED <<settings, config, graph, graphs_built, signal, calls>>

(* Validate that treats a malformed result like a recoverable error: it
   falls back and retries the vendor. *)
Validate_RetriesMalformed ==
    /\ pc = "validate"
    /\ raw' = None
    /\ IF raw = "valid"
       THEN /\ results' = Append(results, VendorRunResult(i))
            /\ NextVendor
       ELSE /\ results' = results
            /\ pc' = "fallback"
            /\ i' = i
    /\ UNCHANGED <<settings, config, graph, graphs_built, signal, calls>>

(* PropagateResultModel(...) and results.append(VendorRunResult(...)). *)
Validate ==
    /\ pc = "validate"
    /\ results' = IF raw = "valid"
                  THEN Append(results, VendorRunResult(i))
                  ELSE results
    /\ raw' = None
    /\ NextVendor
    /\ UNCHANGED <<settings, config, graph, graphs_built, signal, calls>>

(* Finish without the `if not results` check. *)
Finish_ReturnsAlways ==
    /\ pc = "after_loop"
    /\ pc' = "returned"
    /\ UNCHANGED <<settings, config, graph, graphs_built, signal, i, results,
                   raw, calls>>

(* After the loop: raise if nothing succeeded, else return the batch. *)
Finish ==
    /\ pc = "after_loop"
    /\ pc' = IF results = << >> THEN "raised_all_failed" ELSE "returned"
    /\ UNCHANGED <<settings, config, graph, graphs_built, signal, i, results,
                   raw, calls>>

(***************************************************************************)
(* TimingCallbackHandler._extract_token_usage.                             *)
(*                                                                         *)
(* A usage object is what the code may find under llm_output               *)
(* ["token_usage"] or in message.usage_metadata: None, a dict (possibly    *)
(* empty, possibly lacking keys), or some other truthy object without a    *)
(* .get method.                                                            *)
(***************************************************************************)
FlatKeys == {"prompt_tokens", "completion_tokens", "total_tokens"}

NestedKeys == {"input_tokens", "output_tokens", "total_tokens"}

EmptyItems == [k \in {} |-> 0]

NoneUsage == [kind |-> "none", items |-> EmptyItems]

ObjectUsage == [kind |-> "object", items |-> EmptyItems]

DictUsage(items) == [kind |-> "dict", items |-> items]

(* Counter values found in the dicts. *)
TokenValues == {0, 7}

FlatDicts ==
    { DictUsage(f) : f \in UNION { [K -> TokenValues] : K \in SUBSET FlatKeys } }

NestedDicts ==
    { DictUsage(EmptyItems),
      DictUsage([k \in {"input_tokens"} |-> 7]),
      DictUsage([k \in NestedKeys |->
                   IF k = "input_tokens" THEN 2
                   ELSE IF k = "output_tokens" THEN 3 ELSE 5]) }

(* response.llm_output: None, {}, a dict without "token_usage", or a dict
   with it. *)
LlmOutputs ==
    { [kind |-> k, token_usage |-> NoneUsage] : k \in {"none", "empty", "other_keys"} }
    \cup { [kind |-> "dict", token_usage |-> u] :
             u \in FlatDicts \cup {NoneUsage, ObjectUsage} }

(* A generation: without a message, or with one whose usage_metadata is a
   usage object. *)
Generations ==
    { [message |-> FALSE, usage_metadata |-> NoneUsage] }
    \cup { [message |-> TRUE, usage_metadata |-> u] :
             u \in NestedDicts \cup {NoneUsage, ObjectUsage} }

(* response.generations: a list of lists of generations. *)
GenerationLists ==
    { << >>, << << >> >> }
    \cup { << <<g>> >> : g \in Generations }
    \cup { << <<g, h>> >> : g, h \in Generations }
    \cup { << <<g>>, <<h>> >> : g, h \in Generations }

Responses == [llm_output : LlmOutputs, generations : GenerationLists]

(* bool(x) of a usage object *)
Truthy(u) ==
    \/ u.kind = "object"
    \/ u.kind = "dict" /\ DOMAIN u.items # {}

(* d.get(k, 0) of a dict *)
Get(u, k) == IF k \in DOMAIN u.items THEN u.items[k] ELSE 0

Tokens(a, b, c) ==
    [raised |-> FALSE, input_tokens |-> a, output_tokens |-> b,
     total_tokens |-> c]

ZeroTokens == Tokens(0, 0, 0)

(* AttributeError: the object has no attribute 'get' *)
RaisedTokens ==
    [raised |-> TRUE, input_tokens |-> 0, output_tokens |-> 0,
     total_tokens |-> 0]

NoResult ==
    [raised |-> FALSE, input_tokens |-> -1, output_tokens |-> -1,
     total_tokens |-> -1]

(* response.llm_output.get("token_usage", {}) when llm_output is truthy *)
FlatUsage(r) ==
    IF r.llm_output.kind = "dict" THEN r.llm_output.token_usage
    ELSE DictUsage(EmptyItems)

(* getattr(msg, "usage_metadata", None) if msg else None *)
GenUsage(gen) == IF gen.message THEN gen.usage_metadata ELSE NoneUsage

RECURSIVE Flatten(_)
(* the generations in the order the two nested for loops visit them *)
Flatten(lists) ==
    IF lists = << >> THEN << >> ELSE Head(lists) \o Flatten(Tail(lists))

RECURSIVE FromGenerations(_)
(* the nested loops: the first generation with a truthy usage decides *)
FromGenerations(gens) ==
    IF gens = << >> THEN ZeroTokens
    ELSE LET usage == GenUsage(Head(gens)) IN
         IF Truthy(usage)
         THEN IF usage.kind = "object" THEN RaisedTokens
              ELSE Tokens(Get(usage, "input_tokens"),
                          Get(usage, "output_tokens"),
                          Get(usage, "total_tokens"))
         ELSE FromGenerations(Tail(gens))

(* The extraction with the two shapes tried in the other order. *)
_extract_token_usage_NestedFirst(r) ==
    LET token_usage == FlatUsage(r)
        nested == FromGenerations(Flatten(r.generations)) IN
    IF nested # ZeroTokens THEN nested
    ELSE IF r.llm_output.kind \in {"dict", "other_keys"} /\ Truthy(token_usage)
    THEN IF token_usage.kind = "object" THEN RaisedTokens
         ELSE Tokens(Get(token_usage, "prompt_tokens"),
                     Get(token_usage, "completion_tokens"),
                     Get(token_usage, "total_tokens"))
    ELSE ZeroTokens

_extract_token_usage(r) ==
    LET token_usage == FlatUsage(r) IN
    IF r.llm_output.kind \in {"dict", "other_keys"} /\ Truthy(token_usage)
    THEN IF token_usage.kind = "object" THEN RaisedTokens
         ELSE Tokens(Get(token_usage, "prompt_tokens"),
                     Get(token_usage, "completion_tokens"),
                     Get(token_usage, "total_tokens"))
    ELSE FromGenerations(Flatten(r.generations))

(* The extraction applied to the chosen response. *)
ExtractTokenUsage ==
    /\ tk_pc = "call"
    /\ tk_result' = _extract_token_usage(response)
    /\ tk_pc' = "done"
    /\ UNCHANGED response

(* No extraction going on: the state of this part under the other
   specifications. *)
TokensIdle ==
    /\ response = [llm_output |-> [kind |-> "none", token_usage |-> NoneUsage],
                   generations |-> << >>]
    /\ tk_result = NoResult
    /\ tk_pc = "idle"

(***************************************************************************)
(* PropagateResultModel.normalize_decision.                                *)
(*                                                                         *)
(* A text is a sequence of characters.  The decision values the pipeline   *)
(* hands over are None and the texts made of a few fragments, so that BUY  *)
(* and SELL occur in any case, in any order, whole or split over two       *)
(* fragments.                                                              *)
(***************************************************************************)
(* Fragments a decision text is made of, at most. *)
MaxWords == 3

Fragments ==
    { <<"b", "u", "y">>, <<"S", "e", "l", "l">>, <<"H", "O", "L", "D">>,
      <<"b", "U">>, <<"Y">>, <<"s", "e", "L">>, <<"l">>, <<" ">> }

RECURSIVE Join(_)
Join(ws) == IF ws = << >> THEN << >> ELSE Head(ws) \o Join(Tail(ws))

Texts == { Join(ws) : ws \in SeqsUpTo(Fragments, MaxWords) }

NoneValue == [kind |-> "none", text |-> << >>]

DecisionValues == { [kind |-> "str", text |-> x] : x \in Texts } \cup {NoneValue}

(* str(value) *)
Str(v) == IF v.kind = "str" THEN v.text ELSE <<"N", "o", "n", "e">>

(* c.upper() of one character *)
UpperChar(c) ==
    CASE c = "b" -> "B" [] c = "u" -> "U" [] c = "y" -> "Y"
      [] c = "s" -> "S" [] c = "e" -> "E" [] c = "l" -> "L"
      [] c = "o" -> "O" [] c = "n" -> "N"
      [] OTHER -> c

(* text.upper() *)
Upper(x) == [n \in DOMAIN x |-> UpperChar(x[n])]

RECURSIVE LStrip(_)
LStrip(x) ==
    IF x # << >> /\ Head(x) = " " THEN LStrip(Tail(x)) ELSE x

RECURSIVE RStrip(_)
RStrip(x) ==
    IF x # << >> /\ x[Len(x)] = " " THEN RStrip(SubSeq(x, 1, Len(x) - 1))
    ELSE x

(* text.strip() *)
Strip(x) == RStrip(LStrip(x))

(* pat in text *)
In(pat, x) ==
    \E k \in 1..(Len(x) - Len(pat) + 1) : SubSeq(x, k, k + Len(pat) - 1) = pat

BUY == <<"B", "U", "Y">>

SELL == <<"S", "E", "L", "L">>

Unset == "unset"

(* normalize_decision with the two tests in the other order. *)
normalize_decision_SellFirst(v) ==
    LET text == Upper(Strip(Str(v))) IN
    IF In(SELL, text) THEN "SELL"
    ELSE IF In(BUY, text) THEN "BUY"
    ELSE "HOLD"

normalize_decision(v) ==
    LET text == Upper(Strip(Str(v))) IN
    IF In(BUY, text) THEN "BUY"
    ELSE IF In(SELL, text) THEN "SELL"
    ELSE "HOLD"

(* The validator applied to the decision the pipeline returned. *)
NormalizeDecision ==
    /\ decision = Unset
    /\ decision' = normalize_decision(value)
    /\ UNCHANGED value

(* No validation going on: the state of this part under the other
   specifications. *)
DecisionIdle ==
    /\ value = NoneValue
    /\ decision = "idle"

DecisionInit ==
    /\ value \in DecisionValues
    /\ decision = Unset

(***************************************************************************)
(* TimingCallbackHandler.                                                  *)
(***************************************************************************)
(* Calls the threads of SpecCollector may make in total. *)
MaxOps == 3

(* Largest value time.monotonic() returns. *)
MaxTime == 1

Threads == {"t1", "t2", "t3"}

(* The threads that call the handler in SpecCollector. *)
Workers == {"t1", "t2"}

(* The run ids their calls carry. *)
RunIds == {"r1"}

(* The run id of the start/end pair a thread issues in SpecPairs. *)
PairId(t) == IF t = "t1" THEN "r1" ELSE IF t = "t2" THEN "r2" ELSE "r3"

Kinds == {"llm", "chain", "tool"}

(* str(error) of the exception passed to an error handler *)
ErrorText == "rate limit"

(* serialized of a chat model, a node and a tool, as in the tests *)
LlmSerialized == [model |-> "gemini", name |-> None, id |-> <<"ChatOpenAI">>]

ChainSerialized == [model |-> None, name |-> "Trader", id |-> <<"StateGraph">>]

ToolSerialized == [model |-> None, name |-> "get_news", id |-> << >>]

(* {} : the default of the serialized pops *)
EmptySerialized == [model |-> None, name |-> None, id |-> << >>]

_extract_model_name(serialized) ==
    IF serialized.model # None THEN serialized.model
    ELSE IF serialized.id # << >> THEN serialized.id[Len(serialized.id)]
    ELSE "unknown"

_extract_tool_name(serialized) ==
    IF serialized.name # None THEN serialized.name ELSE "unknown_tool"

_extract_chain_name(serialized) ==
    IF serialized.name # None THEN serialized.name
    ELSE IF serialized.id # << >> THEN serialized.id[Len(serialized.id)]
    ELSE "unknown_chain"

LLMCallRecord(rid, model, start, end, tokens, error) ==
    [run_id |-> rid, model |-> model, start_time |-> start, end_time |-> end,
     duration_s |-> end - start, input_tokens |-> tokens.input_tokens,
     output_tokens |-> tokens.output_tokens,
     total_tokens |-> tokens.total_tokens, error |-> error]

(* ChainRecord as on_chain_start creates it: end_time and duration_s 0.0 *)
ChainRecord(rid, name, start) ==
    [run_id |-> rid, name |-> name, start_time |-> start, end_time |-> 0,
     duration_s |-> 0, error |-> None]

ToolCallRecord(rid, tool_name, start, end, error) ==
    [run_id |-> rid, tool_name |-> tool_name, start_time |-> start,
     end_time |-> end, duration_s |-> end - start, error |-> error]

(* record = None *)
NoRecord == [run_id |-> None]

(* The results a call of on_llm_end may carry: flat counters, no usage
   data, a token_usage that is no dict. *)
FlatResponse ==
    [llm_output |-> [kind |-> "dict",
                     token_usage |-> DictUsage([k \in FlatKeys |-> 7])],
     generations |-> << << >> >>]

NoUsageResponse ==
    [llm_output |-> [kind |-> "none", token_usage |-> NoneUsage],
     generations |-> << << >> >>]

MalformedResponse ==
    [llm_output |-> [kind |-> "dict", token_usage |-> ObjectUsage],
     generations |-> << << >> >>]

CollectorResponses == {FlatResponse, NoUsageResponse, MalformedResponse}

(* A call: the handler, its run_id, its response (on_llm_end), and the
   time it reads on entry, before taking the lock (-1: none read). *)
Op(name, rid, resp) ==
    [name |-> name, rid |-> rid, response |-> resp, time |-> -1]

NoOp == Op("none", None, NoUsageResponse)

StartOps == {"on_llm_start", "on_chain_start", "on_tool_start"}

EndOps == {"on_llm_end", "on_chain_end", "on_tool_end"}

ErrorOps == {"on_llm_error", "on_chain_error", "on_tool_error"}

FreeOps ==
    { Op(n, r, NoUsageResponse) :
        n \in (StartOps \cup EndOps \cup ErrorOps) \ {"on_llm_end"},
        r \in RunIds }
    \cup { Op("on_llm_end", r, resp) : r \in RunIds, resp \in CollectorResponses }
    \cup { Op("get_summary", None, NoUsageResponse),
           Op("reset", None, NoUsageResponse) }

(* The handlers that call time.monotonic() before `with self._lock`. *)
ReadsClockOnEntry == EndOps \cup ErrorOps \cup {"on_chain_start"}

NoSnap == [llm_calls |-> << >>, chain_records |-> << >>, tool_calls |-> << >>]

NoReturn == [kind |-> "none"]

Returned == [kind |-> "returned"]

Raised == [kind |-> "raised"]

(* A thread outside the handler; ret is how its last call ended, op that
   call, matched whether its pop found the start entry. *)
IdleThread ==
    [pc |-> "idle", op |-> NoOp, record |-> NoRecord, matched |-> FALSE,
     snap |-> NoSnap, ret |-> NoReturn]

EmptyMap == [k \in {} |-> 0]

(* m[k] = v *)
Put(m, k, v) == [x \in DOMAIN m \cup {k} |-> IF x = k THEN v ELSE m[x]]

(* m.pop(k, default): the value, and the map that is left *)
PopValue(m, k, default) == IF k \in DOMAIN m THEN m[k] ELSE default

PopRest(m, k) == [x \in DOMAIN m \ {k} |-> m[x]]

RECURSIVE Sum(_)
Sum(q) == IF q = << >> THEN 0 ELSE Head(q) + Sum(Tail(q))

(* the dict get_summary builds from its three copies; durations are whole
   clock units, which round(x, 3) leaves as they are *)
Summary(llm, chains, tools) ==
    [llm_calls |->
        [n \in DOMAIN llm |->
            [model |-> llm[n].model, duration_s |-> llm[n].duration_s,
             input_tokens |-> llm[n].input_tokens,
             output_tokens |-> llm[n].output_tokens,
             total_tokens |-> llm[n].total_tokens, error |-> llm[n].error]],
     chain_records |->
        [n \in DOMAIN chains |->
            [name |-> chains[n].name, duration_s |-> chains[n].duration_s,
             error |-> chains[n].error]],
     tool_calls |->
        [n \in DOMAIN tools |->
            [tool_name |-> tools[n].tool_name,
             duration_s |-> tools[n].duration_s, error |-> tools[n].error]],
     totals |->
        [llm_call_count |-> Len(llm),
         llm_total_time_s |-> Sum([n \in DOMAIN llm |-> llm[n].duration_s]),
         llm_total_input_tokens |->
             Sum([n \in DOMAIN llm |-> llm[n].input_tokens]),
         llm_total_output_tokens |->
             Sum([n \in DOMAIN llm |-> llm[n].output_tokens]),
         llm_total_tokens |-> Sum([n \in DOMAIN llm |-> llm[n].total_tokens]),
         tool_call_count |-> Len(tools),
         tool_total_time_s |->
             Sum([n \in DOMAIN tools |-> tools[n].duration_s]),
         chain_count |-> Len(chains)]]

(* TimingCallbackHandler.__init__ *)
HandlerInit ==
    /\ _lock = None
    /\ _llm_starts = EmptyMap
    /\ _llm_serialized = EmptyMap
    /\ _chain_starts = EmptyMap
    /\ _tool_starts = EmptyMap
    /\ _tool_serialized = EmptyMap
    /\ llm_calls = << >>
    /\ chain_records = << >>
    /\ tool_calls = << >>
    /\ clock = 0
    /\ th = [t \in Threads |-> IdleThread]
    /\ stale = {}
    /\ n_starts = [k \in Kinds |-> 0]
    /\ log = << >>

(* A new handler whose threads may make MaxOps calls of their choice. *)
CollectorInit ==
    /\ HandlerInit
    /\ ops_left = MaxOps
    /\ script = [t \in Threads |-> << >>]

(* A new handler every thread of which issues one start/end pair with an
   id of its own (test_concurrent_llm_calls). *)
PairsInit ==
    /\ HandlerInit
    /\ ops_left = 0
    /\ script = [t \in Threads |->
                   << Op("on_llm_start", PairId(t), NoUsageResponse),
                      Op("on_llm_end", PairId(t), FlatResponse) >>]

(* A new handler nobody calls: the collector under the other
   specifications. *)
CollectorIdle ==
    /\ HandlerInit
    /\ ops_left = 0
    /\ script = [t \in Threads |-> << >>]

(* Thread t enters handler o: the statements before `with self._lock`. *)
Begin(t, o) ==
    IF o.name \in ReadsClockOnEntry
    THEN \E now \in clock..MaxTime :
           /\ clock' = now
           /\ th' = [th EXCEPT ![t] =
                       [IdleThread EXCEPT
                          !.pc = "acquire1",
                          !.op = [o EXCEPT !.time = now],
                          !.record =
                             IF o.name = "on_chain_start"
                             THEN ChainRecord(o.rid,
                                     _extract_chain_name(ChainSerialized), now)
                             ELSE NoRecord]]
    ELSE /\ clock' = clock
         /\ th' = [th EXCEPT ![t] =
                     [IdleThread EXCEPT !.pc = "acquire1", !.op = o]]

(* The thread's call returns (or raises): it is outside the handler; op and
   matched stay as a note of the call that ended. *)
Return(t, how) ==
    th' = [th EXCEPT ![t] = [IdleThread EXCEPT !.op = th[t].op,
                                               !.matched = th[t].matched,
                                               !.ret = how]]

(* A thread calls a handler of its choice. *)
Invoke(t) ==
    /\ th[t].pc = "idle"
    /\ ops_left > 0
    /\ ops_left' = ops_left - 1
    /\ \E o \in FreeOps : Begin(t, o)
    /\ UNCHANGED <<_lock, shared, script, stale, n_starts>>

(* A thread calls the next handler of its script. *)
InvokeScripted(t) ==
    /\ th[t].pc = "idle"
    /\ script[t] # << >>
    /\ script' = [script EXCEPT ![t] = Tail(script[t])]
    /\ Begin(t, Head(script[t]))
    /\ UNCHANGED <<_lock, shared, ops_left, stale, n_starts>>

(* Acquire that enters the block without taking the lock. *)
Acquire_NoLock(t) ==
    /\ th[t].pc \in {"acquire1", "acquire2"}
    /\ th' = [th EXCEPT ![t].pc =
                IF th[t].pc = "acquire1" THEN "body1" ELSE "body2"]
    /\ UNCHANGED <<_lock, shared, clock, ops_left, script, stale, n_starts>>

(* `with self._lock:` entered: the thread waits until the lock is free. *)
Acquire(t) ==
    /\ th[t].pc \in {"acquire1", "acquire2"}
    /\ _lock = None
    /\ _lock' = t
    /\ th' = [th EXCEPT ![t].pc =
                IF th[t].pc = "acquire1" THEN "body1" ELSE "body2"]
    /\ UNCHANGED <<shared, clock, ops_left, script, stale, n_starts>>

(* LlmStart that keeps the entry of an id already in flight (setdefault
   instead of assignment). *)
LlmStart_KeepsFirst(t) ==
    /\ th[t].pc = "body1"
    /\ th[t].op.name = "on_llm_start"
    /\ \E now \in clock..MaxTime :
         /\ clock' = now
         /\ _llm_starts' = IF th[t].op.rid \in DOMAIN _llm_starts
                           THEN _llm_starts
                           ELSE Put(_llm_starts, th[t].op.rid, now)
    /\ _llm_serialized' = Put(_llm_serialized, th[t].op.rid, LlmSerialized)
    /\ _lock' = None
    /\ Return(t, Returned)
    /\ stale' = stale \ {<<"llm", th[t].op.rid>>}
    /\ n_starts' = [n_starts EXCEPT !["llm"] = @ + 1]
    /\ UNCHANGED <<_chain_starts, _tool_starts, _tool_serialized, llm_calls,
                   chain_records, tool_calls, ops_left, script>>

(* on_chat_model_start / on_llm_start: the block under the lock. *)
LlmStart(t) ==
    /\ th[t].pc = "body1"
    /\ th[t].op.name = "on_llm_start"
    /\ \E now \in clock..MaxTime :
         /\ clock' = now
         /\ _llm_starts' = Put(_llm_starts, th[t].op.rid, now)
    /\ _llm_serialized' = Put(_llm_serialized, th[t].op.rid, LlmSerialized)
    /\ _lock' = None
    /\ Return(t, Returned)
    /\ stale' = stale \ {<<"llm", th[t].op.rid>>}
    /\ n_starts' = [n_starts EXCEPT !["llm"] = @ + 1]
    /\ UNCHANGED <<_chain_starts, _tool_starts, _tool_serialized, llm_calls,
                   chain_records, tool_calls, ops_left, script>>

(* LlmPop whose start time defaults to 0 when the id is not in flight. *)
LlmPop_ZeroStart(t) ==
    /\ th[t].pc = "body1"
    /\ th[t].op.name \in {"on_llm_end", "on_llm_error"}
    /\ LET o == th[t].op
           start_time == PopValue(_llm_starts, o.rid, 0)
           serialized == PopValue(_llm_serialized, o.rid, EmptySerialized)
           tokens == IF o.name = "on_llm_end"
                     THEN _extract_token_usage(o.response)
                     ELSE ZeroTokens
       IN  IF tokens.raised
           THEN Return(t, Raised)
           ELSE th' = [th EXCEPT
                  ![t].pc = "acquire2",
                  ![t].matched = o.rid \in DOMAIN _llm_starts,
                  ![t].record =
                     LLMCallRecord(o.rid, _extract_model_name(serialized),
                        start_time, o.time, tokens,
                        IF o.name = "on_llm_error" THEN ErrorText ELSE None)]
    /\ _llm_starts' = PopRest(_llm_starts, th[t].op.rid)
    /\ _llm_serialized' = PopRest(_llm_serialized, th[t].op.rid)
    /\ _lock' = None
    /\ UNCHANGED <<_chain_starts, _tool_starts, _tool_serialized, llm_calls,
                   chain_records, tool_calls, clock, ops_left, script, stale,
                   n_starts>>

(* on_llm_end / on_llm_error: the two pops under the lock, then, outside
   it, the usage counters (on_llm_end) and the record. *)
LlmPop(t) ==
    /\ th[t].pc = "body1"
    /\ th[t].op.name \in {"on_llm_end", "on_llm_error"}
    /\ LET o == th[t].op
           start_time == PopValue(_llm_starts, o.rid, o.time)
           serialized == PopValue(_llm_serialized, o.rid, EmptySerialized)
           tokens == IF o.name = "on_llm_end"
                     THEN _extract_token_usage(o.response)
                     ELSE ZeroTokens
       IN  IF tokens.raised
           THEN Return(t, Raised)
           ELSE th' = [th EXCEPT
                  ![t].pc = "acquire2",
                  ![t].matched = o.rid \in DOMAIN _llm_starts,
                  ![t].record =
                     LLMCallRecord(o.rid, _extract_model_name(serialized),
                        start_time, o.time, tokens,
                        IF o.name = "on_llm_error" THEN ErrorText ELSE None)]
    /\ _llm_starts' = PopRest(_llm_starts, th[t].op.rid)
    /\ _llm_serialized' = PopRest(_llm_serialized, th[t].op.rid)
    /\ _lock' = None
    /\ UNCHANGED <<_chain_starts, _tool_starts, _tool_serialized, llm_calls,
                   chain_records, tool_calls, clock, ops_left, script, stale,
                   n_starts>>

(* LlmAppend that writes the record over the last one of the list. *)
LlmAppend_Overwrites(t) ==
    /\ th[t].pc = "body2"
    /\ th[t].op.name \in {"on_llm_end", "on_llm_error"}
    /\ llm_calls' = IF llm_calls = << >>
                    THEN << th[t].record >>
                    ELSE [llm_calls EXCEPT ![Len(llm_calls)] = th[t].record]
    /\ _lock' = None
    /\ Return(t, Returned)
    /\ UNCHANGED <<_llm_starts, _llm_serialized, _chain_starts, _tool_starts,
                   _tool_serialized, chain_records, tool_calls, clock,
                   ops_left, script, stale, n_starts>>

(* on_llm_end / on_llm_error: self.llm_calls.append(record) under the lock. *)
LlmAppend(t) ==
    /\ th[t].pc = "body2"
    /\ th[t].op.name \in {"on_llm_end", "on_llm_error"}
    /\ llm_calls' = Append(llm_calls, th[t].record)
    /\ _lock' = None
    /\ Return(t, Returned)
    /\ UNCHANGED <<_llm_starts, _llm_serialized, _chain_starts, _tool_starts,
                   _tool_serialized, chain_records, tool_calls, clock,
                   ops_left, script, stale, n_starts>>

(* on_chain_start: the record built on entry is stored under the lock. *)
ChainStart(t) ==
    /\ th[t].pc = "body1"
    /\ th[t].op.name = "on_chain_start"
    /\ _chain_starts' = Put(_chain_starts, th[t].op.rid, th[t].record)
    /\ _lock' = None
    /\ Return(t, Returned)
    /\ stale' = stale \ {<<"chain", th[t].op.rid>>}
    /\ n_starts' = [n_starts EXCEPT !["chain"] = @ + 1]
    /\ UNCHANGED <<_llm_starts, _llm_serialized, _tool_starts,
                   _tool_serialized, llm_calls, chain_records, tool_calls,
                   clock, ops_left, script>>

(* ChainPop that makes a record of an end with no start, as LlmPop does. *)
ChainPop_AlwaysRecords(t) ==
    /\ th[t].pc = "body1"
    /\ th[t].op.name \in {"on_chain_end", "on_chain_error"}
    /\ LET o == th[t].op
           record == PopValue(_chain_starts, o.rid,
                              ChainRecord(o.rid, "unknown_chain", o.time))
       IN  th' = [th EXCEPT
                  ![t].pc = "acquire2",
                  ![t].matched = o.rid \in DOMAIN _chain_starts,
                  ![t].record =
                     [record EXCEPT
                        !.end_time = o.time,
                        !.duration_s = o.time - record.start_time,
                        !.error = IF o.name = "on_chain_error"
                                  THEN ErrorText ELSE @]]
    /\ _chain_starts' = PopRest(_chain_starts, th[t].op.rid)
    /\ _lock' = None
    /\ UNCHANGED <<_llm_starts, _llm_serialized, _tool_starts,
                   _tool_serialized, llm_calls, chain_records, tool_calls,
                   clock, ops_left, script, stale, n_starts>>

(* on_chain_end / on_chain_error: the pop under the lock, then `if record:`
   and the record's end fields. *)
ChainPop(t) ==
    /\ th[t].pc = "body1"
    /\ th[t].op.name \in {"on_chain_end", "on_chain_error"}
    /\ LET o == th[t].op
           record == PopValue(_chain_starts, o.rid, NoRecord)
       IN  IF record = NoRecord
           THEN Return(t, Returned)
           ELSE th' = [th EXCEPT
                  ![t].pc = "acquire2",
                  ![t].matched = TRUE,
                  ![t].record =
                     [record EXCEPT
                        !.end_time = o.time,
                        !.duration_s = o.time - record.start_time,
                        !.error = IF o.name = "on_chain_error"
                                  THEN ErrorText ELSE @]]
    /\ _chain_starts' = PopRest(_chain_starts, th[t].op.rid)
    /\ _lock' = None
    /\ UNCHANGED <<_llm_starts, _llm_serialized, _tool_starts,
                   _tool_serialized, llm_calls, chain_records, tool_calls,
                   clock, ops_left, script, stale, n_starts>>

(* on_chain_end / on_chain_error: self.chain_records.append(record). *)
ChainAppend(t) ==
    /\ th[t].pc = "body2"
    /\ th[t].op.name \in {"on_chain_end", "on_chain_error"}
    /\ chain_records' = Append(chain_records, th[t].record)
    /\ _lock' = None
    /\ Return(t, Returned)
    /\ UNCHANGED <<_llm_starts, _llm_serialized, _chain_starts, _tool_starts,
                   _tool_serialized, llm_calls, tool_calls, clock, ops_left,
                   script, stale, n_starts>>

(* on_tool_start: the block under the lock. *)
ToolStart(t) ==
    /\ th[t].pc = "body1"
    /\ th[t].op.name = "on_tool_start"
    /\ \E now \in clock..MaxTime :
         /\ clock' = now
         /\ _tool_starts' = Put(_tool_starts, th[t].op.rid, now)
    /\ _tool_serialized' = Put(_tool_serialized, th[t].op.rid, ToolSerialized)
    /\ _lock' = None
    /\ Return(t, Returned)
    /\ stale' = stale \ {<<"tool", th[t].op.rid>>}
    /\ n_starts' = [n_starts EXCEPT !["tool"] = @ + 1]
    /\ UNCHANGED <<_llm_starts, _llm_serialized, _chain_starts, llm_calls,
                   chain_records, tool_calls, ops_left, script>>

(* ToolPop whose record never carries the error text. *)
ToolPop_DropsError(t) ==
    /\ th[t].pc = "body1"
    /\ th[t].op.name \in {"on_tool_end", "on_tool_error"}
    /\ LET o == th[t].op
           start_time == PopValue(_tool_starts, o.rid, o.time)
           serialized == PopValue(_tool_serialized, o.rid, EmptySerialized)
       IN  th' = [th EXCEPT
                  ![t].pc = "acquire2",
                  ![t].matched = o.rid \in DOMAIN _tool_starts,
                  ![t].record =
                     ToolCallRecord(o.rid, _extract_tool_name(serialized),
                        start_time, o.time, None)]
    /\ _tool_starts' = PopRest(_tool_starts, th[t].op.rid)
    /\ _tool_serialized' = PopRest(_tool_serialized, th[t].op.rid)
    /\ _lock' = None
    /\ UNCHANGED <<_llm_starts, _llm_serialized, _chain_starts, llm_calls,
                   chain_records, tool_calls, clock, ops_left, script, stale,
                   n_starts>>

(* on_tool_end / on_tool_error: the two pops under the lock, then the
   record. *)
ToolPop(t) ==
    /\ th[t].pc = "body1"
    /\ th[t].op.name \in {"on_tool_end", "on_tool_error"}
    /\ LET o == th[t].op
           start_time == PopValue(_tool_starts, o.rid, o.time)
           serialized == PopValue(_tool_serialized, o.rid, EmptySerialized)
       IN  th' = [th EXCEPT
                  ![t].pc = "acquire2",
                  ![t].matched = o.rid \in DOMAIN _tool_starts,
                  ![t].record =
                     ToolCallRecord(o.rid, _extract_tool_name(serialized),
                        start_time, o.time,
                        IF o.name = "on_tool_error" THEN ErrorText ELSE None)]
    /\ _tool_starts' = PopRest(_tool_starts, th[t].op.rid)
    /\ _tool_serialized' = PopRest(_tool_serialized, th[t].op.rid)
    /\ _lock' = None
    /\ UNCHANGED <<_llm_starts, _llm_serialized, _chain_starts, llm_calls,
                   chain_records, tool_calls, clock, ops_left, script, stale,
                   n_starts>>

(* ToolAppend that drops the record of an end with no start, as the node
   handlers do. *)
ToolAppend_SkipsUnmatched(t) ==
    /\ th[t].pc = "body2"
    /\ th[t].op.name \in {"on_tool_end", "on_tool_error"}
    /\ tool_calls' = IF th[t].matched
                     THEN Append(tool_calls, th[t].record)
                     ELSE tool_calls
    /\ _lock' = None
    /\ Return(t, Returned)
    /\ UNCHANGED <<_llm_starts, _llm_serialized, _chain_starts, _tool_starts,
                   _tool_serialized, llm_calls, chain_records, clock,
                   ops_left, script, stale, n_starts>>

(* on_tool_end / on_tool_error: self.tool_calls.append(record). *)
ToolAppend(t) ==
    /\ th[t].pc = "body2"
    /\ th[t].op.name \in {"on_tool_end", "on_tool_error"}
    /\ tool_calls' = Append(tool_calls, th[t].record)
    /\ _lock' = None
    /\ Return(t, Returned)
    /\ UNCHANGED <<_llm_starts, _llm_serialized, _chain_starts, _tool_starts,
                   _tool_serialized, llm_calls, chain_records, clock,
                   ops_left, script, stale, n_starts>>

(* SummaryCopy that empties the completed lists once it has copied them,
   so that a summary reports what is new since the last one. *)
SummaryCopy_Drains(t) ==
    /\ th[t].pc = "body1"
    /\ th[t].op.name = "get_summary"
    /\ th' = [th EXCEPT
                ![t].pc = "compute",
                ![t].snap = [llm_calls |-> llm_calls,
                             chain_records |-> chain_records,
                             tool_calls |-> tool_calls]]
    /\ llm_calls' = << >>
    /\ chain_records' = << >>
    /\ tool_calls' = << >>
    /\ _lock' = None
    /\ UNCHANGED <<_llm_starts, _llm_serialized, _chain_starts, _tool_starts,
                   _tool_serialized, clock, ops_left, script, stale, n_starts>>

(* SummaryCopy in which log_summary takes the lock itself and calls
   get_summary from inside its block: get_summary then waits for the lock
   its own thread holds. *)
SummaryCopy_Reenters(t) ==
    /\ th[t].pc = "body1"
    /\ th[t].op.name \in {"get_summary", "log_summary"}
    /\ IF th[t].op.name = "log_summary"
       THEN /\ th' = [th EXCEPT ![t].pc = "acquire2"]
            /\ _lock' = _lock
       ELSE /\ th' = [th EXCEPT
                        ![t].pc = "compute",
                        ![t].snap = [llm_calls |-> llm_calls,
                                     chain_records |-> chain_records,
                                     tool_calls |-> tool_calls]]
            /\ _lock' = None
    /\ UNCHANGED <<shared, clock, ops_left, script, stale, n_starts>>

(* get_summary, called directly or as the first statement of log_summary:
   the three list copies under the lock. *)
SummaryCopy(t) ==
    /\ th[t].pc = "body1"
    /\ th[t].op.name \in {"get_summary", "log_summary"}
    /\ th' = [th EXCEPT
                ![t].pc = "compute",
                ![t].snap = [llm_calls |-> llm_calls,
                             chain_records |-> chain_records,
                             tool_calls |-> tool_calls]]
    /\ _lock' = None
    /\ UNCHANGED <<shared, clock, ops_left, script, stale, n_starts>>

(* SummaryCompute that takes the totals from the lists as they are now,
   not from the copies. *)
SummaryCompute_Live(t) ==
    /\ th[t].pc = "compute"
    /\ Return(t, [kind |-> "summary",
                  summary |->
                     [Summary(th[t].snap.llm_calls, th[t].snap.chain_records,
                              th[t].snap.tool_calls)
                        EXCEPT !.totals =
                           Summary(llm_calls, chain_records,
                                   tool_calls).totals]])
    /\ UNCHANGED <<_lock, shared, clock, ops_left, script, stale, n_starts>>

(* get_summary: the sums and the returned dict, outside the lock; the dict
   goes to the caller, or to log_summary, which goes on to format it. *)
SummaryCompute(t) ==
    /\ th[t].pc = "compute"
    /\ IF th[t].op.name = "log_summary"
       THEN th' = [th EXCEPT ![t].pc = "log"]
       ELSE Return(t, [kind |-> "summary",
                       summary |-> Summary(th[t].snap.llm_calls,
                                           th[t].snap.chain_records,
                                           th[t].snap.tool_calls)])
    /\ UNCHANGED <<_lock, shared, clock, ops_left, script, stale, n_starts>>

(* log_summary after get_summary has returned: the lines are built from
   the dict and passed to logger.info; nothing of the handler is touched. *)
LogSummary(t) ==
    /\ th[t].pc = "log"
    /\ Return(t, Returned)
    /\ UNCHANGED <<_lock, shared, clock, ops_left, script, stale, n_starts>>

(* The run ids in flight, by kind. *)
InFlight ==
    {<<"llm", r>> : r \in DOMAIN _llm_starts \cup DOMAIN _llm_serialized}
    \cup {<<"chain", r>> : r \in DOMAIN _chain_starts}
    \cup {<<"tool", r>> : r \in DOMAIN _tool_starts \cup DOMAIN _tool_serialized}

(* Reset that clears the completed lists only. *)
Reset_KeepsInFlight(t) ==
    /\ th[t].pc = "body1"
    /\ th[t].op.name = "reset"
    /\ llm_calls' = << >>
    /\ chain_records' = << >>
    /\ tool_calls' = << >>
    /\ _lock' = None
    /\ Return(t, Returned)
    /\ stale' = stale \cup InFlight
    /\ UNCHANGED <<_llm_starts, _llm_serialized, _chain_starts, _tool_starts,
                   _tool_serialized, clock, ops_left, script, n_starts>>

(* reset: the eight clear() calls under the lock. *)
Reset(t) ==
    /\ th[t].pc = "body1"
    /\ th[t].op.name = "reset"
    /\ _llm_starts' = EmptyMap
    /\ _llm_serialized' = EmptyMap
    /\ _chain_starts' = EmptyMap
    /\ _tool_starts' = EmptyMap
    /\ _tool_serialized' = EmptyMap
    /\ llm_calls' = << >>
    /\ chain_records' = << >>
    /\ tool_calls' = << >>
    /\ _lock' = None
    /\ Return(t, Returned)
    /\ stale' = stale \cup InFlight
    /\ UNCHANGED <<clock, ops_left, script, n_starts>>

CollectorNext ==
    \E t \in Workers :
       \/ Invoke(t) /\ UNCHANGED <<svars, tvars, dvars, log>>
       \/ Acquire(t) /\ UNCHANGED <<svars, tvars, dvars, log>>
       \/ LlmStart(t) /\ UNCHANGED <<svars, tvars, dvars, log>>
       \/ LlmPop(t) /\ UNCHANGED <<svars, tvars, dvars, log>>
       \/ LlmAppend(t) /\ UNCHANGED <<svars, tvars, dvars, log>>
       \/ ChainStart(t) /\ UNCHANGED <<svars, tvars, dvars, log>>
       \/ ChainPop(t) /\ UNCHANGED <<svars, tvars, dvars, log>>
       \/ ChainAppend(t) /\ UNCHANGED <<svars, tvars, dvars, log>>
       \/ ToolStart(t) /\ UNCHANGED <<svars, tvars, dvars, log>>
       \/ ToolPop(t) /\ UNCHANGED <<svars, tvars, dvars, log>>
       \/ ToolAppend(t) /\ UNCHANGED <<svars, tvars, dvars, log>>
       \/ SummaryCopy(t) /\ UNCHANGED <<svars, tvars, dvars, log>>
       \/ SummaryCompute(t) /\ UNCHANGED <<svars, tvars, dvars, log>>
       \/ Reset(t) /\ UNCHANGED <<svars, tvars, dvars, log>>

PairsNext ==
    \E t \in Threads :
       \/ InvokeScripted(t) /\ UNCHANGED <<svars, tvars, dvars, log>>
       \/ Acquire(t) /\ UNCHANGED <<svars, tvars, dvars, log>>
       \/ LlmStart(t) /\ UNCHANGED <<svars, tvars, dvars, log>>
       \/ LlmPop(t) /\ UNCHANGED <<svars, tvars, dvars, log>>
       \/ LlmAppend(t) /\ UNCHANGED <<svars, tvars, dvars, log>>

Init ==
    /\ StrategyInit
    /\ TokensIdle
    /\ CollectorIdle
    /\ DecisionIdle

Next ==
    \/ Enter /\ UNCHANGED <<tvars, cvars, dvars, log>>
    \/ PropagateReturns /\ UNCHANGED <<tvars, cvars, dvars, log>>
    \/ PropagateRaises /\ UNCHANGED <<tvars, cvars, dvars, log>>
    \/ BuildFallback /\ UNCHANGED <<tvars, cvars, dvars, log>>
    \/ RetryReturns /\ UNCHANGED <<tvars, cvars, dvars, log>>
    \/ RetryRaises /\ UNCHANGED <<tvars, cvars, dvars, log>>
    \/ Validate /\ UNCHANGED <<tvars, cvars, dvars, log>>
    \/ Finish /\ UNCHANGED <<tvars, cvars, dvars, log>>

Spec == Init /\ [][Next]_vars

(* The strategy part while the other specifications run: constructed with
   one fixed setting, run_market_signal not called. *)
StrategyIdle ==
    /\ settings = [provider |-> "google", quick_provider |-> None,
                   deep_provider |-> None, google_thinking_level |-> None]
    /\ config = build_runtime_config(settings)
    /\ graph = graph_factory(1, config)
    /\ graphs_built = 1
    /\ signal = << >>
    /\ pc = "idle"
    /\ i = 0
    /\ results = << >>
    /\ raw = None
    /\ calls = << >>

TokensInit ==
    /\ response \in Responses
    /\ tk_result = NoResult
    /\ tk_pc = "call"

TokensNext == ExtractTokenUsage /\ UNCHANGED <<svars, cvars, dvars, log>>

InitTokens == StrategyIdle /\ TokensInit /\ CollectorIdle /\ DecisionIdle

SpecTokens == InitTokens /\ [][TokensNext]_vars

(* The one thread that calls the handler in SpecCalls, and the run ids of
   its calls. *)
Caller == "t1"

CallIds == {"r1", "r2"}

(* The call events, get_summary and reset. *)
CallOps ==
    { Op(n, r, NoUsageResponse) :
        n \in {"on_llm_start", "on_llm_error"}, r \in CallIds }
    \cup { Op("on_llm_end", r, resp) : r \in CallIds, resp \in CollectorResponses }
    \cup { Op("get_summary", None, NoUsageResponse),
           Op("reset", None, NoUsageResponse) }

(* The caller makes a call of its choice. *)
InvokeCall(t) ==
    /\ th[t].pc = "idle"
    /\ ops_left > 0
    /\ ops_left' = ops_left - 1
    /\ \E o \in CallOps : Begin(t, o)
    /\ UNCHANGED <<_lock, shared, script, stale, n_starts>>

(* A line of the log of what the handler did: a start stored (with the
   time it read), the pops of an end or error event (raised: the event
   then raised), an append, a reset, a summary returned. *)
Event(name, rid, time, summary) ==
    [name |-> name, rid |-> rid, time |-> time, summary |-> summary]

NoSummary == Summary(<< >>, << >>, << >>)

CallsInit ==
    /\ HandlerInit
    /\ ops_left = MaxOps
    /\ script = [t \in Threads |-> << >>]

CallsNext ==
    \E t \in {Caller} :
       \/ /\ InvokeCall(t)
          /\ UNCHANGED <<svars, tvars, dvars, log>>
       \/ /\ Acquire(t)
          /\ UNCHANGED <<svars, tvars, dvars, log>>
       \/ /\ LlmStart(t)
          /\ log' = Append(log, Event("start", th[t].op.rid, clock',
                                       NoSummary))
          /\ UNCHANGED <<svars, tvars, dvars>>
       \/ /\ LlmPop(t)
          /\ log' = Append(log,
                       Event(IF th'[t].ret = Raised THEN "raised" ELSE "pop",
                             th[t].op.rid, th[t].op.time, NoSummary))
          /\ UNCHANGED <<svars, tvars, dvars>>
       \/ /\ LlmAppend(t)
          /\ log' = Append(log, Event("append", th[t].op.rid,
                                       th[t].op.time, NoSummary))
          /\ UNCHANGED <<svars, tvars, dvars>>
       \/ /\ SummaryCopy(t)
          /\ UNCHANGED <<svars, tvars, dvars, log>>
       \/ /\ SummaryCompute(t)
          /\ log' = Append(log, Event("get_summary", None, clock,
                                       th'[t].ret.summary))
          /\ UNCHANGED <<svars, tvars, dvars>>
       \/ /\ Reset(t)
          /\ log' = Append(log, Event("reset", None, clock, NoSummary))
          /\ UNCHANGED <<svars, tvars, dvars>>

InitCalls == StrategyIdle /\ TokensIdle /\ CallsInit /\ DecisionIdle

SpecCalls == InitCalls /\ [][CallsNext]_vars

(* A new handler and three threads: each runs the start and the end or
   error handler of one kind of event with an id of its own, then one of
   log_summary, get_summary and reset. *)
LiveInit ==
    /\ HandlerInit
    /\ ops_left = 0
    /\ script =
         [t \in Threads |->
            IF t = "t1"
            THEN << Op("on_llm_start", PairId(t), NoUsageResponse),
                    Op("on_llm_error", PairId(t), NoUsageResponse),
                    Op("log_summary", None, NoUsageResponse) >>
            ELSE IF t = "t2"
            THEN << Op("on_chain_start", PairId(t), NoUsageResponse),
                    Op("on_chain_end", PairId(t), NoUsageResponse),
                    Op("get_summary", None, NoUsageResponse) >>
            ELSE << Op("on_tool_start", PairId(t), NoUsageResponse),
                    Op("on_tool_end", PairId(t), NoUsageResponse),
                    Op("reset", None, NoUsageResponse) >>]

(* The steps of thread t. *)
ThreadStep(t) ==
    \/ InvokeScripted(t) /\ UNCHANGED <<svars, tvars, dvars, log>>
    \/ Acquire(t) /\ UNCHANGED <<svars, tvars, dvars, log>>
    \/ LlmStart(t) /\ UNCHANGED <<svars, tvars, dvars, log>>
    \/ LlmPop(t) /\ UNCHANGED <<svars, tvars, dvars, log>>
    \/ LlmAppend(t) /\ UNCHANGED <<svars, tvars, dvars, log>>
    \/ ChainStart(t) /\ UNCHANGED <<svars, tvars, dvars, log>>
    \/ ChainPop(t) /\ UNCHANGED <<svars, tvars, dvars, log>>
    \/ ChainAppend(t) /\ UNCHANGED <<svars, tvars, dvars, log>>
    \/ ToolStart(t) /\ UNCHANGED <<svars, tvars, dvars, log>>
    \/ ToolPop(t) /\ UNCHANGED <<svars, tvars, dvars, log>>
    \/ ToolAppend(t) /\ UNCHANGED <<svars, tvars, dvars, log>>
    \/ SummaryCopy(t) /\ UNCHANGED <<svars, tvars, dvars, log>>
    \/ SummaryCompute(t) /\ UNCHANGED <<svars, tvars, dvars, log>>
    \/ LogSummary(t) /\ UNCHANGED <<svars, tvars, dvars, log>>
    \/ Reset(t) /\ UNCHANGED <<svars, tvars, dvars, log>>

LiveNext == \E t \in Threads : ThreadStep(t)

(* Fair scheduling: a thread that can take a step is not passed over for
   ever. *)
Fairness == \A t \in Threads : WF_vars(ThreadStep(t))

InitLive == StrategyIdle /\ TokensIdle /\ LiveInit /\ DecisionIdle

SpecLive == InitLive /\ [][LiveNext]_vars /\ Fairness

DecisionNext == NormalizeDecision /\ UNCHANGED <<svars, tvars, cvars, log>>

InitDecision == StrategyIdle /\ TokensIdle /\ CollectorIdle /\ DecisionInit

SpecDecision == InitDecision /\ [][DecisionNext]_vars

InitCollector ==
    StrategyIdle /\ TokensIdle /\ CollectorInit /\ DecisionIdle

SpecCollector == InitCollector /\ [][CollectorNext]_vars

InitPairs == StrategyIdle /\ TokensIdle /\ PairsInit /\ DecisionIdle

SpecPairs == InitPairs /\ [][PairsNext]_vars

(***************************************************************************)
(* Vocabulary of the properties.                                           *)
(***************************************************************************)
Vendors == 1..Len(signal)

CallsOf(k) == {n \in DOMAIN calls : calls[n].vendor = k}

NumCalls(k) == Cardinality(CallsOf(k))

(* Vendor k's invocation (first or retry) returned a well-formed result. *)
Succeeded(k) == \E n \in CallsOf(k) : calls[n].outcome = "valid"

RecordsOf(k) == {n \in DOMAIN results : results[n].vendor = k}

(* The loop has moved past vendor k. *)
Processed(k) ==
    \/ k < i
    \/ k = i /\ pc \in {"after_loop", "returned", "raised_all_failed"}

Exited == pc \in {"returned", "raised_empty", "raised_all_failed",
                  "raised_factory"}

(* n is the first invocation of its vendor. *)
IsFirstCall(n) == \A m \in CallsOf(calls[n].vendor) : n <= m

(* C1: a batch is returned only with at least one result, from at least one
   vendor that succeeded; the all-vendors-failed error is raised exactly
   when every vendor was invoked (retries included) and none succeeded. *)
C1_ResultsNonEmpty ==
    /\ pc = "returned" =>
          /\ results # << >>
          /\ \E k \in Vendors : Succeeded(k)
    /\ pc = "raised_all_failed" =>
          /\ results = << >>
          /\ i = Len(signal)
          /\ \A k \in Vendors : NumCalls(k) >= 1 /\ ~Succeeded(k)
    /\ (pc \in {"returned", "raised_all_failed"}
          /\ \A k \in Vendors : ~Succeeded(k)) => pc = "raised_all_failed"

C1_Witness ==
    /\ pc = "raised_all_failed"
    /\ Len(signal) = MaxVendors
    /\ Len(calls) > Len(signal)

(* C2: run_market_signal exits only by returning, by the empty-batch error
   or by the all-vendors-failed error; no failure met while one vendor is
   processed ends the run. *)
C2_OnlyTwoErrorsEscape ==
    Exited => pc \in {"returned", "raised_empty", "raised_all_failed"}

(* C3: the returned results hold exactly one record for every vendor whose
   invocation (first or retry) succeeded with a valid result, and none for
   any other vendor; so one success gives one record, and three vendors of
   which one succeeds on its retry give three records. *)
C3_ExactlyTheSuccesses ==
    pc \in {"after_loop", "returned"} =>
       /\ \A k \in Vendors :
            /\ Cardinality(RecordsOf(k)) = IF Succeeded(k) THEN 1 ELSE 0
            /\ \A n \in RecordsOf(k) : results[n].ticker = signal[k]
       /\ \A n \in DOMAIN results : results[n].vendor \in Vendors
       /\ Len(results) = Cardinality({k \in Vendors : Succeeded(k)})

C3_Witness ==
    /\ pc = "returned"
    /\ Len(signal) = 3
    /\ Len(results) = 3
    /\ Len(calls) = 4
    /\ calls[2].vendor = 2 /\ calls[2].outcome = "marker"
    /\ calls[3].vendor = 2 /\ calls[3].outcome = "valid"

(* C4, as stated: when every invocation raises the marker, every vendor of
   a run that went through the whole batch was invoked exactly twice. *)
C4_AlwaysTwoInvocations ==
    (/\ pc = "raised_all_failed"
     /\ \A n \in DOMAIN calls : calls[n].outcome = "marker")
    => \A k \in Vendors : NumCalls(k) = 2

(* C4, amended: a vendor all of whose invocations raise the marker has,
   once the loop has moved past it, been invoked exactly twice when a
   Google provider is configured and exactly once otherwise, and has no
   record; no vendor is ever invoked a third time. *)
C4_MarkerRetriedOnceWithGoogle ==
    /\ \A k \in Vendors : NumCalls(k) <= 2
    /\ \A k \in Vendors :
         (Processed(k) /\ \A n \in CallsOf(k) : calls[n].outcome = "marker")
         => /\ NumCalls(k) = IF uses_google(settings) THEN 2 ELSE 1
            /\ RecordsOf(k) = {}

C4_Witness ==
    /\ pc = "raised_all_failed"
    /\ uses_google(settings)
    /\ Len(signal) >= 2
    /\ Len(calls) = 2 * Len(signal)
    /\ \A n \in DOMAIN calls : calls[n].outcome = "marker"

(* C5: the first invocation of every vendor runs on the capability built
   by the constructor, under the thinking hint of the settings, whatever
   happened to the vendors before it. *)
C5_FallbackStaysLocal ==
    \A n \in DOMAIN calls :
       IsFirstCall(n) =>
          /\ calls[n].graph = 1
          /\ calls[n].thinking = settings.google_thinking_level

(* C6: with an empty vendor list the run ends with the empty-batch error,
   and only then; at that point nothing was invoked, no capability was
   built and config and graph are those of the constructor. *)
C6_EmptyBatchFailsFast ==
    /\ (signal = << >> /\ pc # "idle") =>
          /\ pc = "raised_empty"
          /\ calls = << >>
          /\ graphs_built = 1
          /\ config = build_runtime_config(settings)
          /\ graph = graph_factory(1, build_runtime_config(settings))
    /\ pc = "raised_empty" => signal = << >>

C6_Witness == pc = "raised_empty" /\ calls = << >>

(* C7: vendors are first invoked in input order, none skipped, and the
   records of results are in input order. *)
C7_InputOrder ==
    /\ \A m, n \in DOMAIN calls : m < n => calls[m].vendor <= calls[n].vendor
    /\ \A k \in Vendors :
         (k < i \/ (k = i /\ pc # "propagate")) <=> NumCalls(k) >= 1
    /\ \A m, n \in DOMAIN results :
         m < n => results[m].vendor < results[n].vendor

C7_Witness ==
    /\ pc = "returned"
    /\ Len(signal) = 3
    /\ Len(results) = 2
    /\ results[1].vendor = 1
    /\ results[2].vendor = 3

(* C8, as stated: no capability instance serves the invocations of two
   different vendors. *)
C8_CapabilityPerVendor ==
    \A m, n \in DOMAIN calls :
       calls[m].graph = calls[n].graph => calls[m].vendor = calls[n].vendor

(* C8, amended: vendors are invoked one after the other on the strategy's
   single live capability: the constructor's instance serves the first
   invocation, a vendor's first invocation runs on the instance that served
   the invocation before it, and only a retry runs on a newly built one. *)
C8_OneLiveCapability ==
    /\ calls # << >> => calls[1].graph = 1
    /\ \A n \in DOMAIN calls :
         n > 1 =>
            calls[n].graph = IF calls[n].vendor = calls[n - 1].vendor
                             THEN calls[n - 1].graph + 1
                             ELSE calls[n - 1].graph
    /\ \A n \in DOMAIN calls : calls[n].graph <= graphs_built
    /\ graph.id = graphs_built

C8_Witness ==
    /\ Len(calls) = 4
    /\ calls[1].vendor = 1 /\ calls[1].graph = 1
    /\ calls[2].vendor = 2 /\ calls[2].graph = 1
    /\ calls[3].vendor = 2 /\ calls[3].graph = 2
    /\ calls[4].vendor = 3 /\ calls[4].graph = 2

(* The first invocation of vendor k *)
FirstCall(k) == CHOOSE n \in CallsOf(k) : \A m \in CallsOf(k) : n <= m

(* Vendor k's first invocation raised an error classified as recoverable. *)
Recoverable(k) ==
    /\ NumCalls(k) >= 1
    /\ calls[FirstCall(k)].outcome = "marker"
    /\ uses_google(settings)

(* run_market_signal is done with vendor k: the loop moved past it, or the
   run ended while it was being processed. *)
Done(k) == Processed(k) \/ (Exited /\ NumCalls(k) >= 1)

(* C21, as stated: a vendor is invoked a second time if and only if its
   first invocation raised a recoverable error, otherwise exactly once,
   and never more than twice. *)
C21_SecondIffRecoverable ==
    \A k \in Vendors :
       /\ NumCalls(k) <= 2
       /\ Done(k) => NumCalls(k) = IF Recoverable(k) THEN 2 ELSE 1

(* C21, amended: a vendor is invoked a second time if and only if its
   first invocation raised a recoverable error and the fallback capability
   was then built; when the factory raises instead, the run ends and the
   vendor has been invoked once; in every other case a vendor is invoked
   exactly once, and none is ever invoked more than twice. *)
C21_SecondIffRecoverableAndBuilt ==
    \A k \in Vendors :
       /\ NumCalls(k) <= 2
       /\ NumCalls(k) = 2 => Recoverable(k)
       /\ Done(k) =>
             NumCalls(k) = IF Recoverable(k) /\ ~(pc = "raised_factory" /\ k = i)
                           THEN 2 ELSE 1

(* Vendor 1 was retried after a recoverable error, vendor 2 raised one as
   well and the factory failed: two invocations and one. *)
C21_Witness ==
    /\ pc = "raised_factory"
    /\ i = 2
    /\ NumCalls(1) = 2
    /\ NumCalls(2) = 1
    /\ Recoverable(1)
    /\ Recoverable(2)

(* The step that builds the fallback is taken. *)
FallbackStep == pc = "fallback" /\ pc' # "fallback"

(* C22: the fallback configuration equals the configuration in force on
   every field but the thinking hint, which is cleared; the configuration
   that was in force, which the capability built from it still holds, is
   left as it was; the settings never change. *)
C22_FallbackIsNewValue ==
    /\ [][FallbackStep =>
            /\ DOMAIN config' = DOMAIN config
            /\ config'.google_thinking_level = None
            /\ \A f \in DOMAIN config \ {"google_thinking_level"} :
                  config'[f] = config[f]
            /\ IF graph'.id = graph.id
               THEN graph'.config = graph.config
               ELSE graph'.config = config']_vars
    /\ [][settings' = settings]_vars

(* The hint was set, a fallback was attempted and its capability not
   built: the live capability still holds the configuration with the
   hint, the strategy holds the cleared one. *)
C22_Witness ==
    /\ pc = "raised_factory"
    /\ settings.google_thinking_level = "high"
    /\ graph.config.google_thinking_level = "high"
    /\ config.google_thinking_level = None

(* C23: a vendor whose invocation returns a malformed result is not invoked
   again, gets no record, and the loop goes on with the next vendor, or to
   the code after the loop, without touching results, configuration or
   capability. *)
C23_MalformedIsDropped ==
    /\ [](\A k \in Vendors : \A n \in CallsOf(k) :
            calls[n].outcome = "malformed" =>
               /\ \A m \in CallsOf(k) : m <= n
               /\ RecordsOf(k) = {}
               /\ n < Len(calls) => calls[n + 1].vendor = k + 1)
    /\ [][(pc = "validate" /\ raw = "malformed") =>
            /\ results' = results
            /\ calls' = calls
            /\ config' = config
            /\ graph' = graph
            /\ IF i < Len(signal)
               THEN i' = i + 1 /\ pc' = "propagate"
               ELSE i' = i /\ pc' = "after_loop"]_vars

(* The second of three vendors returned a malformed result: one invocation
   each, records for the other two. *)
C23_Witness ==
    /\ pc = "returned"
    /\ Len(signal) = 3
    /\ Len(calls) = 3
    /\ calls[2].vendor = 2
    /\ calls[2].outcome = "malformed"
    /\ Len(results) = 2

(* C24: run_market_signal ends with a batch or one of its two errors, and
   when it has ended on a batch of N vendors every vendor was invoked at
   least once and at most 2N invocations were made. *)
C24_EndsAfterInvokingAll ==
    Exited =>
       /\ pc \in {"returned", "raised_empty", "raised_all_failed"}
       /\ \A k \in Vendors : NumCalls(k) >= 1
       /\ Len(calls) <= 2 * Len(signal)

(* C27: between invocations and after the run has ended the live capability
   is the one built last, and it was built from the configuration the
   strategy holds. *)
C27_CapabilityMatchesConfig ==
    /\ graph.id = graphs_built
    /\ graph.config = config

(***************************************************************************)
(* Properties of the usage-counter extraction (SpecTokens).                *)
(***************************************************************************)
(* No usage object of the response is of an unrecognized type. *)
WellFormed(r) ==
    /\ r.llm_output.token_usage.kind # "object"
    /\ \A n \in DOMAIN Flatten(r.generations) :
         Flatten(r.generations)[n].usage_metadata.kind # "object"

(* The usage object is a counters object holding at least one entry. *)
NonEmptyCounters(u) == u.kind = "dict" /\ DOMAIN u.items # {}

(* The positions, in visiting order, of the generations that carry a
   non-empty counters object. *)
WithCounters(gens) ==
    {n \in DOMAIN gens :
        gens[n].message /\ NonEmptyCounters(gens[n].usage_metadata)}

Counter(u, k) == IF k \in DOMAIN u.items THEN u.items[k] ELSE 0

(* C18: the counters come from the flat object of the result when it is
   non-empty; otherwise from the first generation that carries a non-empty
   counters object; otherwise all are zero; a counter missing in the chosen
   object is zero. *)
C18_ShapesInPriorityOrder ==
    (tk_pc = "done" /\ WellFormed(response)) =>
       LET flat == response.llm_output.token_usage
           gens == Flatten(response.generations)
       IN  /\ ~tk_result.raised
           /\ IF response.llm_output.kind = "dict" /\ NonEmptyCounters(flat)
              THEN /\ tk_result.input_tokens = Counter(flat, "prompt_tokens")
                   /\ tk_result.output_tokens = Counter(flat, "completion_tokens")
                   /\ tk_result.total_tokens = Counter(flat, "total_tokens")
              ELSE IF WithCounters(gens) # {}
              THEN LET n == CHOOSE m \in WithCounters(gens) :
                               \A q \in WithCounters(gens) : m <= q
                       u == gens[n].usage_metadata
                   IN /\ tk_result.input_tokens = Counter(u, "input_tokens")
                      /\ tk_result.output_tokens = Counter(u, "output_tokens")
                      /\ tk_result.total_tokens = Counter(u, "total_tokens")
              ELSE /\ tk_result.input_tokens = 0
                   /\ tk_result.output_tokens = 0
                   /\ tk_result.total_tokens = 0

(* a flat object lacking a key wins over a generation with counters *)
C18_Witness ==
    /\ tk_pc = "done"
    /\ WellFormed(response)
    /\ response.llm_output.kind = "dict"
    /\ DOMAIN response.llm_output.token_usage.items = {"prompt_tokens"}
    /\ WithCounters(Flatten(response.generations)) # {}
    /\ tk_result = Tokens(7, 0, 0)


(***************************************************************************)
(* TimingCallbackHandler: the claims.                                      *)
(***************************************************************************)
(* Every thread is outside the handler and has no call left to make. *)
AllDone == \A t \in Threads : th[t].pc = "idle" /\ script[t] = << >>

(* The places of the records of run id r in the list q *)
RecordsWithId(q, r) == {n \in DOMAIN q : q[n].run_id = r}

(* Thread t executes a block that runs under `with self._lock`. *)
InBlock(t) == th[t].pc \in {"body1", "body2"}

(* C11: N start/end pairs of calls with distinct ids, one pair per thread,
   interleaved in any way, leave exactly N completed call records, one per
   id, and leave the in-flight call maps empty. *)
C11_OneRecordPerPair ==
    AllDone =>
       /\ Len(llm_calls) = Cardinality(Threads)
       /\ \A t \in Threads :
             Cardinality(RecordsWithId(llm_calls, PairId(t))) = 1
       /\ _llm_starts = EmptyMap
       /\ _llm_serialized = EmptyMap

(* All pairs are done, and the records are not in the order of the
   threads: the pairs were interleaved. *)
C11_Witness ==
    /\ AllDone
    /\ Len(llm_calls) = Cardinality(Threads)
    /\ llm_calls[1].run_id = PairId("t3")
    /\ llm_calls[2].run_id = PairId("t1")
    /\ \A t \in Threads : th[t].op.name = "on_llm_end"

(* C12: every block of the start, end, error, summary and reset handlers
   that reads or writes the in-flight maps and the completed lists runs
   with the handler's one lock held by its thread, so at most one thread
   at a time is in such a block, and the maps and lists change only in a
   step of the thread that holds the lock. *)
C12_LockGuardsState ==
    /\ [](\A t \in Threads : InBlock(t) => _lock = t)
    /\ [](\A t, u \in Threads : InBlock(t) /\ InBlock(u) => t = u)
    /\ [][shared' # shared =>
            \E t \in Threads : InBlock(t) /\ _lock = t /\ ~InBlock(t)']_vars

(* One thread is in a block with the lock while the other waits for it. *)
C12_Witness ==
    /\ th["t1"].pc = "body1"
    /\ _lock = "t1"
    /\ th["t2"].pc = "acquire2"

(* C13: the handler never raises from its recording paths: no call of a
   handler ends with an exception, whatever usage data the result of a
   call end event carries. *)
C13_NeverRaises == \A t \in Threads : th[t].ret # Raised

(* The kind of records a handler deals with *)
KindOf(name) ==
    IF name \in {"on_llm_start", "on_llm_end", "on_llm_error"} THEN "llm"
    ELSE IF name \in {"on_chain_start", "on_chain_end", "on_chain_error"}
         THEN "chain"
    ELSE IF name \in {"on_tool_start", "on_tool_end", "on_tool_error"}
         THEN "tool"
    ELSE "none"

(* Thread t's call is an end or error event. *)
IsEnd(t) == th[t].op.name \in EndOps \cup ErrorOps

(* Thread t is at the pops of an end or error event for an id that was in
   flight when a reset cleared it and has not been started since. *)
PopsStale(t) ==
    /\ th[t].pc = "body1"
    /\ IsEnd(t)
    /\ <<KindOf(th[t].op.name), th[t].op.rid>> \in stale

(* Every in-flight map and every completed list is empty. *)
AllEmpty ==
    /\ _llm_starts = EmptyMap
    /\ _llm_serialized = EmptyMap
    /\ _chain_starts = EmptyMap
    /\ _tool_starts = EmptyMap
    /\ _tool_serialized = EmptyMap
    /\ llm_calls = << >>
    /\ chain_records = << >>
    /\ tool_calls = << >>

(* Every total of the summary of the current lists is zero. *)
ZeroTotals ==
    \A k \in DOMAIN Summary(llm_calls, chain_records, tool_calls).totals :
       Summary(llm_calls, chain_records, tool_calls).totals[k] = 0

(* C14: when reset() returns while no other thread is inside a handler,
   every in-flight map and every completed list is empty and the summary
   has all totals zero; an end or error event that arrives later for an id
   started before the reset finds no start entry. *)
C14_ResetClearsAll ==
    /\ [][\A t \in Threads :
            (/\ th[t].pc = "body1"
             /\ th[t].op.name = "reset"
             /\ th'[t].pc = "idle"
             /\ \A u \in Threads \ {t} : th[u].pc = "idle")
            => (AllEmpty' /\ ZeroTotals')]_vars
    /\ [][\A t \in Threads :
            (PopsStale(t) /\ th'[t].pc # "body1")
            => /\ <<KindOf(th[t].op.name), th[t].op.rid>> \notin InFlight
               /\ th'[t].pc = "acquire2" => ~th'[t].matched
               /\ KindOf(th[t].op.name) = "chain" => th'[t].pc = "idle"]_vars

(* An end event for an id started before a reset has returned: it found no
   start entry and its record has the end time as start time. *)
C14_Witness ==
    \E t \in Threads :
       /\ th[t].pc = "idle"
       /\ th[t].op.name = "on_tool_end"
       /\ th[t].ret = Returned
       /\ <<"tool", th[t].op.rid>> \in stale
       /\ ~th[t].matched
       /\ Len(tool_calls) = 1

(* Thread t holds a node record it popped and has not appended yet. *)
HoldsChainRecord(t) ==
    /\ th[t].pc \in {"acquire2", "body2"}
    /\ KindOf(th[t].op.name) = "chain"

(* C15: a node end or error event for an id with no in-flight start
   (never started, already finalized, or cleared by reset) returns without
   appending a record or changing the maps and lists; hence the node
   records completed, held or in flight never outnumber the node starts. *)
C15_NodeEndWithoutStartIsNoOp ==
    /\ [][\A t \in Threads :
            (/\ th[t].pc = "body1"
             /\ th[t].op.name \in {"on_chain_end", "on_chain_error"}
             /\ th[t].op.rid \notin DOMAIN _chain_starts
             /\ th'[t].pc # "body1")
            => (th'[t].pc = "idle" /\ th'[t].ret = Returned
                /\ shared' = shared)]_vars
    /\ [](Len(chain_records) + Cardinality(DOMAIN _chain_starts)
            + Cardinality({t \in Threads : HoldsChainRecord(t)})
          <= n_starts["chain"])

(* A node end event for an id that was started and already finalized has
   returned: the one record of the first end event is all there is. *)
C15_Witness ==
    \E t \in Threads :
       /\ th[t].pc = "idle"
       /\ th[t].op.name \in {"on_chain_end", "on_chain_error"}
       /\ th[t].ret = Returned
       /\ ~th[t].matched
       /\ n_starts["chain"] = 1
       /\ Len(chain_records) = 1
       /\ _chain_starts = EmptyMap

(* Thread t takes the step that leaves the block at pc. *)
Leaves(t, pc_) == th[t].pc = pc_ /\ th'[t].pc # pc_

(* C16: a call end or error event for an id with no in-flight start, unless
   its usage extraction raises (C13), builds a record whose start time is
   its end time and appends exactly that one record, of duration 0. *)
C16_CallEndWithoutStartHasZeroDuration ==
    /\ [][\A t \in Threads :
            (/\ Leaves(t, "body1")
             /\ KindOf(th[t].op.name) = "llm" /\ IsEnd(t)
             /\ th[t].op.rid \notin DOMAIN _llm_starts)
            => \/ th'[t].ret = Raised
               \/ /\ th'[t].pc = "acquire2"
                  /\ ~th'[t].matched
                  /\ th'[t].record.run_id = th[t].op.rid
                  /\ th'[t].record.start_time = th[t].op.time
                  /\ th'[t].record.end_time = th[t].op.time]_vars
    /\ [][\A t \in Threads :
            (/\ Leaves(t, "body2")
             /\ KindOf(th[t].op.name) = "llm"
             /\ ~th[t].matched)
            => /\ llm_calls' = Append(llm_calls, th[t].record)
               /\ th[t].record.start_time = th[t].record.end_time
               /\ th[t].record.duration_s = 0
               /\ th'[t].ret = Returned]_vars

(* A call error event for an id never started has returned, at a time
   after 0: its record starts and ends at that time. *)
C16_Witness ==
    \E t \in Threads :
       /\ th[t].pc = "idle"
       /\ th[t].op.name = "on_llm_error"
       /\ th[t].ret = Returned
       /\ ~th[t].matched
       /\ n_starts["llm"] = 0
       /\ Len(llm_calls) = 1
       /\ llm_calls[1].start_time = MaxTime
       /\ llm_calls[1].duration_s = 0

(* C17 as stated: for every record variant an end event with no matching
   start is ignored, so a thread that is about to append the record of an
   end event has found its start entry. *)
C17_UnmatchedEndIgnored ==
    \A t \in Threads :
       (th[t].pc \in {"acquire2", "body2"} /\ th[t].op.name \in EndOps)
       => th[t].matched

(* C17, amended: an end or error event with no matching start is ignored
   only for the node variant; for the sub-task (tool) variant it builds a
   record whose start time is its end time and appends that one record, of
   duration 0. *)
C17_OnlyNodeEndsIgnored ==
    /\ [](\A t \in Threads : HoldsChainRecord(t) => th[t].matched)
    /\ [][\A t \in Threads :
            (/\ Leaves(t, "body1")
             /\ KindOf(th[t].op.name) = "tool" /\ IsEnd(t)
             /\ th[t].op.rid \notin DOMAIN _tool_starts)
            => /\ th'[t].pc = "acquire2"
               /\ ~th'[t].matched
               /\ th'[t].record.run_id = th[t].op.rid
               /\ th'[t].record.start_time = th[t].op.time
               /\ th'[t].record.end_time = th[t].op.time]_vars
    /\ [][\A t \in Threads :
            (/\ Leaves(t, "body2")
             /\ KindOf(th[t].op.name) = "tool"
             /\ ~th[t].matched)
            => /\ tool_calls' = Append(tool_calls, th[t].record)
               /\ th[t].record.duration_s = 0
               /\ th'[t].ret = Returned]_vars

(* A sub-task end event for an id never started has returned and left a
   record. *)
C17_Witness ==
    \E t \in Threads :
       /\ th[t].pc = "idle"
       /\ th[t].op.name = "on_tool_end"
       /\ th[t].ret = Returned
       /\ ~th[t].matched
       /\ n_starts["tool"] = 0
       /\ Len(tool_calls) = 1
       /\ tool_calls[1].start_time = MaxTime
       /\ tool_calls[1].duration_s = 0

(* The counts of summary s are the lengths of its lists and its usage and
   time totals the sums over its listed records. *)
Consistent(s) ==
    /\ s.totals.llm_call_count = Len(s.llm_calls)
    /\ s.totals.tool_call_count = Len(s.tool_calls)
    /\ s.totals.chain_count = Len(s.chain_records)
    /\ s.totals.llm_total_input_tokens
         = Sum([n \in DOMAIN s.llm_calls |-> s.llm_calls[n].input_tokens])
    /\ s.totals.llm_total_output_tokens
         = Sum([n \in DOMAIN s.llm_calls |-> s.llm_calls[n].output_tokens])
    /\ s.totals.llm_total_tokens
         = Sum([n \in DOMAIN s.llm_calls |-> s.llm_calls[n].total_tokens])
    /\ s.totals.llm_total_time_s
         = Sum([n \in DOMAIN s.llm_calls |-> s.llm_calls[n].duration_s])
    /\ s.totals.tool_total_time_s
         = Sum([n \in DOMAIN s.tool_calls |-> s.tool_calls[n].duration_s])

(* C19: get_summary copies the three lists in one block under the lock,
   and every summary it returns lists the records of those copies, with
   counts equal to the lengths of the listed lists and usage totals equal
   to the sums over the listed call records. *)
C19_SummaryIsOneSnapshot ==
    /\ [](\A t \in Threads :
            th[t].ret.kind = "summary" => Consistent(th[t].ret.summary))
    /\ [][\A t \in Threads :
            (Leaves(t, "body1") /\ th[t].op.name = "get_summary")
            => /\ _lock = t
               /\ th'[t].pc = "compute"
               /\ th'[t].snap = [llm_calls |-> llm_calls,
                                 chain_records |-> chain_records,
                                 tool_calls |-> tool_calls]]_vars
    /\ [][\A t \in Threads :
            Leaves(t, "compute")
            => /\ th'[t].ret.kind = "summary"
               /\ Len(th'[t].ret.summary.llm_calls) = Len(th[t].snap.llm_calls)
               /\ Len(th'[t].ret.summary.chain_records)
                    = Len(th[t].snap.chain_records)
               /\ Len(th'[t].ret.summary.tool_calls)
                    = Len(th[t].snap.tool_calls)]_vars

(* A summary of one call with counted tokens has been returned although a
   second call record was appended after the copies were taken. *)
C19_Witness ==
    \E t \in Threads :
       /\ th[t].ret.kind = "summary"
       /\ Len(th[t].ret.summary.llm_calls) = 1
       /\ th[t].ret.summary.totals.llm_total_tokens > 0
       /\ Len(llm_calls) = 2

(* The completed list of a kind of records *)
ListOf(k) ==
    IF k = "llm" THEN llm_calls
    ELSE IF k = "chain" THEN chain_records ELSE tool_calls

(* C20: for calls, nodes and sub-tasks alike, an end or error event removes
   its id from the in-flight state, and the one record it appends carries
   the error text when it was an error event and no error when it was an
   end event; the record of a call error has all usage counters zero. *)
C20_ErrorEventsRecordTheError ==
    /\ [][\A t \in Threads :
            (Leaves(t, "body1") /\ IsEnd(t))
            => <<KindOf(th[t].op.name), th[t].op.rid>> \notin InFlight']_vars
    /\ [][\A t \in Threads :
            (Leaves(t, "body2") /\ IsEnd(t))
            => /\ ListOf(KindOf(th[t].op.name))'
                    = Append(ListOf(KindOf(th[t].op.name)), th[t].record)
               /\ th[t].record.run_id = th[t].op.rid
               /\ th[t].op.name \in ErrorOps
                    => th[t].record.error = ErrorText
               /\ th[t].op.name = "on_llm_error"
                    => /\ th[t].record.input_tokens = 0
                       /\ th[t].record.output_tokens = 0
                       /\ th[t].record.total_tokens = 0
               /\ th[t].op.name \in EndOps
                    => th[t].record.error = None]_vars

(* A node start followed by an error event for the same id has left one
   record with the error text and nothing in flight. *)
C20_Witness ==
    \E t \in Threads :
       /\ th[t].pc = "idle"
       /\ th[t].op.name = "on_chain_error"
       /\ th[t].ret = Returned
       /\ th[t].matched
       /\ Len(chain_records) = 1
       /\ chain_records[1].error = ErrorText
       /\ chain_records[1].run_id = th[t].op.rid
       /\ _chain_starts = EmptyMap

(* C25: finalizing an event is atomic for get_summary and reset: neither
   runs its locked block while another thread has popped the start entry
   of an end or error event and not yet appended the record, so no summary
   misses an id that is no longer in flight and no record popped before a
   reset is appended after it. *)
C25_FinalizeIsAtomic ==
    \A t, u \in Threads :
       (/\ t # u
        /\ th[t].pc \in {"acquire2", "body2"}
        /\ IsEnd(t))
       => ~(th[u].pc = "body1" /\ th[u].op.name \in {"get_summary", "reset"})

(* C26: the lock is held only by a thread inside one of the locked blocks,
   never by one that waits for it or runs code outside a block, so under
   fair scheduling every start, end, error, get_summary, log_summary and
   reset call that is made completes, and every thread makes all of its
   calls. *)
C26_EveryCallCompletes ==
    /\ [](\A t \in Threads : _lock = t => InBlock(t))
    /\ \A t \in Threads : (th[t].pc # "idle") ~> (th[t].pc = "idle")
    /\ <>AllDone

(* All calls are done; the last ones were log_summary, get_summary and
   reset, and the reset ran before the node record was appended. *)
C26_Witness ==
    /\ AllDone
    /\ th["t1"].op.name = "log_summary"
    /\ th["t1"].ret = Returned
    /\ th["t2"].ret.kind = "summary"
    /\ th["t3"].op.name = "reset"
    /\ Len(chain_records) = 1

(***************************************************************************)
(* Properties of sequences of call events (SpecCalls).                     *)
(***************************************************************************)
(* The place of the last entry named name in the log (0: none) *)
LastOf(name) ==
    IF \E n \in DOMAIN log : log[n].name = name
    THEN CHOOSE n \in DOMAIN log :
            /\ log[n].name = name
            /\ \A m \in DOMAIN log : log[m].name = name => m <= n
    ELSE 0

(* The places of the log entries named name since the last reset *)
SinceReset(name) ==
    {n \in DOMAIN log : n > LastOf("reset") /\ log[n].name = name}

(* The places of the starts and of the end or error events of id r since
   the last reset *)
EventsOf(r) ==
    {n \in DOMAIN log :
        /\ n > LastOf("reset")
        /\ log[n].rid = r
        /\ log[n].name \in {"start", "pop", "raised"}}

(* The latest start of id r has not been followed by an end or error. *)
Open(r) ==
    /\ EventsOf(r) # {}
    /\ \A n \in EventsOf(r) :
          (\A m \in EventsOf(r) : m <= n) => log[n].name = "start"

(* The place of the latest start of id r *)
LatestStart(r) ==
    CHOOSE n \in EventsOf(r) : \A m \in EventsOf(r) : m <= n

(* C28: in a sequence of call events, between two events the completed
   call records are as many as the end and error events handled since the
   last reset; at any time the two in-flight call maps have the same keys,
   the ids whose latest start since the last reset has not been followed
   by an end or error event, each with the time its latest start stored. *)
C28_RecordsAndInFlightFollowEvents ==
    /\ th[Caller].pc = "idle" =>
          Len(llm_calls) = Cardinality(SinceReset("pop"))
    /\ Len(llm_calls) = Cardinality(SinceReset("append"))
    /\ DOMAIN _llm_starts = DOMAIN _llm_serialized
    /\ DOMAIN _llm_starts = {r \in CallIds : Open(r)}
    /\ \A r \in DOMAIN _llm_starts :
          _llm_starts[r] = log[LatestStart(r)].time

(* An id was started at time 0, started again later and then ended: one
   record, from the later start, and nothing in flight. *)
C28_Witness ==
    /\ th[Caller].pc = "idle"
    /\ Len(log) = 4
    /\ log[1].name = "start" /\ log[1].rid = "r1" /\ log[1].time = 0
    /\ log[2].name = "start" /\ log[2].rid = "r1" /\ log[2].time = MaxTime
    /\ log[3].name = "pop" /\ log[3].rid = "r1"
    /\ log[4].name = "append"
    /\ Len(llm_calls) = 1
    /\ llm_calls[1].start_time = MaxTime
    /\ _llm_starts = EmptyMap

(* C29: get_summary leaves every in-flight map and every completed list as
   it is, and two calls of it with no event in between return equal
   summaries. *)
C29_SummaryIsReadOnly ==
    /\ [][\A t \in Threads :
            (th[t].op.name = "get_summary" /\ th'[t] # th[t])
            => shared' = shared]_vars
    /\ [](\A n \in DOMAIN log :
            (/\ n < Len(log)
             /\ log[n].name = "get_summary"
             /\ log[n + 1].name = "get_summary")
            => log[n].summary = log[n + 1].summary)

(* Two summaries in a row of a collector that holds one call record. *)
C29_Witness ==
    /\ th[Caller].pc = "idle"
    /\ Len(log) = 4
    /\ log[2].name = "append"
    /\ log[3].name = "get_summary"
    /\ log[4].name = "get_summary"
    /\ log[4].summary.totals.llm_call_count = 1
    /\ Len(llm_calls) = 1

(***************************************************************************)
(* Properties of the decision normalisation (SpecDecision).                *)
(***************************************************************************)
(* The letters of word w, in either case, stand side by side somewhere in
   text x. *)
HasWord(x, w) ==
    \E k \in DOMAIN x :
       \A j \in DOMAIN w :
          /\ k + j - 1 <= Len(x)
          /\ UpperChar(x[k + j - 1]) = w[j]

(* C30: the decision of a record is BUY, SELL or HOLD: BUY if the
   upper-cased decision text contains BUY, otherwise SELL if it contains
   SELL, otherwise HOLD; the validator gives a decision for every value. *)
C30_DecisionFromText ==
    decision \notin {Unset, "idle"} =>
       /\ decision \in {"BUY", "SELL", "HOLD"}
       /\ decision = "BUY" <=> HasWord(Str(value), BUY)
       /\ decision = "SELL" <=>
             (~HasWord(Str(value), BUY) /\ HasWord(Str(value), SELL))
       /\ decision = "HOLD" <=>
             (~HasWord(Str(value), BUY) /\ ~HasWord(Str(value), SELL))

(* A text that holds SELL before BUY, both in mixed case, was normalised
   to BUY. *)
C30_Witness ==
    /\ decision = "BUY"
    /\ value.kind = "str"
    /\ value.text = <<"S", "e", "l", "l", "b", "U", "Y">>

====
